---- MODULE Spec2Model ----
(***************************************************************************)
(* Robustness of one-dimensional ring cellular automata rules under noise. *)
(*                                                                         *)
(* The model covers the rule translation (hex_to_algebraic,                *)
(* convert_to_template), the rule instantiation (build_rule,               *)
(* template_to_network), the scorer (compute_accuracy) and the Model       *)
(* class (get_noise_list, get_robustness, get_lut, get_cana_measures).     *)
(*                                                                         *)
(* Every operation is a call: the state is the last call made, its         *)
(* arguments and what it returned or raised.                               *)
(***************************************************************************)
EXTENDS Integers, Sequences, FiniteSets, TLC

VARIABLES call, args, ret

vars == <<call, args, ret>>

(***************************************************************************)
(* Bounds of the model.                                                    *)
(***************************************************************************)
\* longest hex rule (in digits) drawn for hex_to_algebraic and get_lut
MaxHexLen == 2
\* largest n_inputs drawn for hex_to_algebraic
MaxInputs == 3
\* largest ring size drawn for build_rule
MaxRing == 13
\* largest number of cells and of walkers of a trajectory tensor
MaxCells == 3
MaxWalkers == 2
\* largest deviations drawn for compute_accuracy
MaxDev == 3
\* longest noise list get_robustness is run on
MaxLevels == 3

(***************************************************************************)
(* Calls.  A specification starts from the calls it draws, not yet run;    *)
(* the action of an operation runs it and records what it returns or       *)
(* raises.                                                                 *)
(***************************************************************************)
Pending == [kind |-> "pending"]

\* the calls a specification starts from: the operation and its arguments,
\* not yet run
Calls(op, inputs) ==
    /\ call = op
    /\ args \in inputs
    /\ ret = Pending

Returns(op, value) ==
    /\ call = op
    /\ ret = Pending
    /\ ret' = value
    /\ UNCHANGED <<call, args>>

(***************************************************************************)
(* Natural numbers beyond TLC's 32-bit integers: Limbs limbs of LimbBits   *)
(* bits each, least significant limb first.  They carry the 53-bit         *)
(* significands of Python's floats.                                        *)
(***************************************************************************)
LimbBits == 20
Limbs == 5
Base == 2 ^ LimbBits

BZero == [i \in 1..Limbs |-> 0]

\* the carry into limb i of a + b
RECURSIVE AddCarry(_, _, _)
AddCarry(a, b, i) ==
    IF i = 1 THEN 0 ELSE (a[i - 1] + b[i - 1] + AddCarry(a, b, i - 1)) \div Base

BAdd(a, b) == [i \in 1..Limbs |-> (a[i] + b[i] + AddCarry(a, b, i)) % Base]

\* the carry into limb i of a * k, for a small k
RECURSIVE MulCarry(_, _, _)
MulCarry(a, k, i) ==
    IF i = 1 THEN 0 ELSE (a[i - 1] * k + MulCarry(a, k, i - 1)) \div Base

BMulSmall(a, k) == [i \in 1..Limbs |-> (a[i] * k + MulCarry(a, k, i)) % Base]

\* long division by a small d: the remainder left by the limbs above limb i
RECURSIVE RemAbove(_, _, _)
RemAbove(a, d, i) ==
    IF i >= Limbs THEN 0 ELSE (RemAbove(a, d, i + 1) * Base + a[i + 1]) % d

\* [q |-> a \div d, r |-> a % d]
BDivSmall(a, d) ==
    [q |-> [i \in 1..Limbs |-> (RemAbove(a, d, i) * Base + a[i]) \div d],
     r |-> RemAbove(a, d, 0)]

BLe(a, b) ==
    \/ a = b
    \/ \E i \in 1..Limbs : a[i] < b[i] /\ \A j \in (i + 1)..Limbs : a[j] = b[j]

\* 2^p
BPow2(p) ==
    [i \in 1..Limbs |-> IF i = (p \div LimbBits) + 1 THEN 2 ^ (p % LimbBits) ELSE 0]

\* bit p of a (bit 0 is the least significant)
BitAt(a, p) == (a[(p \div LimbBits) + 1] \div (2 ^ (p % LimbBits))) % 2

\* the number of bits of a: 0 for 0
BitLen(a) ==
    IF a = BZero THEN 0
    ELSE CHOOSE n \in 1..(Limbs * LimbBits) :
            /\ BitAt(a, n - 1) = 1
            /\ \A p \in n..(Limbs * LimbBits - 1) : BitAt(a, p) = 0

\* a with its p low bits cleared
ClearLow(a, p) ==
    [i \in 1..Limbs |->
        IF i * LimbBits <= p THEN 0
        ELSE IF (i - 1) * LimbBits >= p THEN a[i]
        ELSE a[i] - (a[i] % (2 ^ (p - (i - 1) * LimbBits)))]

\* some bit of a below bit p is set
AnyLow(a, p) == ClearLow(a, p) # a

(***************************************************************************)
(* Python floats (IEEE-754 binary64, round to nearest, ties to even).  A   *)
(* float x >= 0 is held as the natural number x * 2^FracBits; every float  *)
(* the model meets is such a multiple and is below 2^(Limbs*LimbBits -     *)
(* FracBits - 10).                                                         *)
(***************************************************************************)
Mantissa == 53
FracBits == 70

\* a (with `sticky` saying that bits below a were already cut off) rounded
\* to Mantissa significant bits
RoundSig(a, sticky) ==
    IF BitLen(a) <= Mantissa THEN a
    ELSE LET drop == BitLen(a) - Mantissa
             up == /\ BitAt(a, drop - 1) = 1
                   /\ (sticky \/ AnyLow(a, drop - 1) \/ BitAt(a, drop) = 1)
             cut == ClearLow(a, drop)
         IN  IF up THEN BAdd(cut, BPow2(drop)) ELSE cut

\* the float a decimal literal num/den denotes
FloatOf(num, den) ==
    LET d == BDivSmall(BMulSmall(BPow2(FracBits), num), den)
    IN  RoundSig(d.q, d.r # 0)

\* x + y
FAdd(x, y) == RoundSig(BAdd(x, y), FALSE)

\* a \div 2^p, for a quotient that fits two limbs
BShrInt(a, p) ==
    LET k == (p \div LimbBits) + 1
        o == p % LimbBits
    IN  (a[k] \div (2 ^ o)) + (IF k < Limbs THEN a[k + 1] * (2 ^ (LimbBits - o)) ELSE 0)

\* round(x, dp): x to dp decimal places, as the number of 10^-dp it holds
PyRound(x, dp) ==
    LET p == BMulSmall(x, 10 ^ dp)
        up == /\ BitAt(p, FracBits - 1) = 1
              /\ (AnyLow(p, FracBits - 1) \/ BitAt(p, FracBits) = 1)
    IN  IF up THEN BShrInt(p, FracBits) + 1 ELSE BShrInt(p, FracBits)

(***************************************************************************)
(* roomyrobot.rule_construction: hex_to_algebraic and convert_to_template. *)
(*                                                                         *)
(* A hex rule is the sequence of its hex digits (the "0x" prefix, which    *)
(* int(.., 16) drops, left out).  A formula is [zero, terms]: the string   *)
(* "0" when zero, else the terms (implicants) joined by "|", each the      *)
(* literals joined by "&".  A literal is [neg, kind, idx], with "!" before *)
(* it when neg: the input "x_<idx>_" (kind "input"), the placeholder       *)
(* "x_{c}", "x_{l<-idx>}" or "x_{r<idx>}" of a template (kind "slot"), or  *)
(* the cell "x_<idx>" of a ring (kind "cell").                             *)
(*                                                                         *)
(* The calls modelled are those with simplify=False: simplify_algebraic    *)
(* hands the formula to the external minimizer.                            *)
(***************************************************************************)
HexDigits == 0..15

\* the digits of hex_string as bits, most significant first
HexBits(hex_string) ==
    [i \in 1..(4 * Len(hex_string)) |->
        (hex_string[((i - 1) \div 4) + 1] \div (2 ^ (3 - ((i - 1) % 4)))) % 2]

\* int(hex_string, 16) == 0
IsZero(hex_string) == \A i \in 1..Len(hex_string) : hex_string[i] = 0

\* a bit string without its leading zeros: "0" for zero
StripZeros(bits) ==
    IF \A i \in 1..Len(bits) : bits[i] = 0 THEN <<0>>
    ELSE LET first == CHOOSE i \in 1..Len(bits) :
                          bits[i] = 1 /\ \A j \in 1..(i - 1) : bits[j] = 0
         IN  SubSeq(bits, first, Len(bits))

\* bin(int(hex_string, 16))[2:]
BinOfHex(hex_string) == StripZeros(HexBits(hex_string))

\* bin(i)[2:] of a small integer i >= 0
BinOfInt(i) ==
    IF i = 0 THEN <<0>>
    ELSE LET w == CHOOSE k \in 1..30 : 2 ^ (k - 1) <= i /\ i < 2 ^ k
         IN  [k \in 1..w |-> (i \div (2 ^ (w - k))) % 2]

\* a zfill that pads nothing
ZFillUnpadded(bits, width) == bits

\* str.zfill(width)
ZFill(bits, width) ==
    IF Len(bits) >= width THEN bits
    ELSE [i \in 1..width |->
             IF i <= width - Len(bits) THEN 0 ELSE bits[i - (width - Len(bits))]]

\* the implicant of input configuration i: one literal per bit of i
Implicant(i, n_inputs) ==
    LET input_config == ZFill(BinOfInt(i), n_inputs)
    IN  [j \in 1..Len(input_config) |->
            [neg |-> input_config[j] # 1, kind |-> "input", idx |-> j - 1]]

convert_to_template(algebraic, n_inputs) ==
    LET central_index == n_inputs \div 2
        Relabel(lit) ==
            IF lit.kind = "input" /\ lit.idx < n_inputs
            THEN [neg |-> lit.neg, kind |-> "slot", idx |-> lit.idx - central_index]
            ELSE lit
    IN  [zero |-> algebraic.zero,
         terms |-> [t \in 1..Len(algebraic.terms) |->
                       [k \in 1..Len(algebraic.terms[t]) |->
                           Relabel(algebraic.terms[t][k])]]]

hex_to_algebraic(hex_string, n_inputs, as_template) ==
    IF IsZero(hex_string) THEN [zero |-> TRUE, terms |-> <<>>]
    ELSE LET bits == ZFill(BinOfHex(hex_string), 2 ^ n_inputs)
             ones == SelectSeq([i \in 1..Len(bits) |-> i - 1],
                               LAMBDA i : bits[i + 1] = 1)
             algebraic == [zero |-> FALSE,
                           terms |-> [t \in 1..Len(ones) |->
                                         Implicant(ones[t], n_inputs)]]
         IN  IF as_template THEN convert_to_template(algebraic, n_inputs)
             ELSE algebraic

\* the literals of a formula
Literals(formula) ==
    UNION {{formula.terms[t][k] : k \in 1..Len(formula.terms[t])} :
              t \in 1..Len(formula.terms)}

\* the value (0 or 1) of a formula when literal `lit` has the value val[lit]
EvalFormula(formula, val) ==
    IF formula.zero THEN 0
    ELSE IF \E t \in 1..Len(formula.terms) :
                \A k \in 1..Len(formula.terms[t]) :
                    LET lit == formula.terms[t][k]
                    IN  IF lit.neg THEN val[lit] = 0 ELSE val[lit] = 1
         THEN 1 ELSE 0

\* the formula on input configuration i: x_0 is the most significant of the
\* n_inputs bits of i
EvalOnConfig(formula, i, n_inputs) ==
    EvalFormula(formula,
                [lit \in Literals(formula) |->
                    (i \div (2 ^ (n_inputs - 1 - lit.idx))) % 2])

(***************************************************************************)
(* roomyrobot.rule_construction: build_rule, build_network and             *)
(* template_to_network.  A noise level is the fraction [num, den].         *)
(*                                                                         *)
(* A rule instance is [kind |-> "rule", target, noisy, base, ..]: the text *)
(* "x_<target>, <base>" when not noisy, and                                *)
(* "x_<target>, (<base>)&(<keep.lo><<=<keep.hi>) |                         *)
(*              !(<base>)&(<flip.lo><<=<flip.hi>)" when noisy.             *)
(***************************************************************************)
MinRing == 7
Radius == 3

Zero(den) == [num |-> 0, den |-> den]
One(den) == [num |-> den, den |-> den]

NoiseOutOfRange(noise) == noise.num < 0 \/ noise.num > noise.den

\* an index check that lets index = N through
IndexOutOfRangeLax(index, N) == index < 0 \/ index > N

IndexOutOfRange(index, N) == index < 0 \/ index >= N

\* a ring check that lets N = 6 through
RingTooSmallLax(N) == N < MinRing - 1

RingTooSmall(N) == N < MinRing

\* c, l1..l3 and r1..r3, by offset: 0 is c, -k is l<k>, k is r<k>
NeighbourIndices(index, N) ==
    [off \in (-Radius)..Radius |-> (index + off) % N]

\* the placeholders of a template, by offset
Slots(rule_template) ==
    {lit.idx : lit \in {l \in Literals(rule_template) : l.kind = "slot"}}

\* rule_template.format(c=c, l1=l1, .., r3=r3)
Format(rule_template, fields) ==
    LET Fill(lit) ==
            IF lit.kind = "slot"
            THEN [neg |-> lit.neg, kind |-> "cell", idx |-> fields[lit.idx]]
            ELSE lit
    IN  [zero |-> rule_template.zero,
         terms |-> [t \in 1..Len(rule_template.terms) |->
                       [k \in 1..Len(rule_template.terms[t]) |->
                           Fill(rule_template.terms[t][k])]]]

DeterministicRule(c, base_rule) ==
    [kind |-> "rule", target |-> c, noisy |-> FALSE, base |-> base_rule]

\* a noisy rule whose alternative is the fixed state 0
NoisyRuleFixedZero(c, base_rule, noise) ==
    [kind |-> "rule", target |-> c, noisy |-> TRUE, base |-> base_rule,
     keep |-> [lo |-> noise, hi |-> One(noise.den)],
     flip |-> [lo |-> Zero(noise.den), hi |-> Zero(noise.den)]]

NoisyRule(c, base_rule, noise) ==
    [kind |-> "rule", target |-> c, noisy |-> TRUE, base |-> base_rule,
     keep |-> [lo |-> noise, hi |-> One(noise.den)],
     flip |-> [lo |-> Zero(noise.den), hi |-> noise]]

build_rule(rule_template, index, N, noise) ==
    IF NoiseOutOfRange(noise)
    THEN [kind |-> "ValueError", msg |-> "Noise must be between 0 and 1"]
    ELSE IF IndexOutOfRange(index, N)
    THEN [kind |-> "ValueError", msg |-> "Index must be between 0 and N-1"]
    ELSE IF RingTooSmall(N)
    THEN [kind |-> "ValueError", msg |-> "N must be at least 7"]
    ELSE LET fields == NeighbourIndices(index, N)
         IN  IF ~(Slots(rule_template) \subseteq DOMAIN fields)
             THEN [kind |-> "KeyError"]
             ELSE IF noise.num = 0
             THEN DeterministicRule(index, Format(rule_template, fields))
             ELSE NoisyRule(index, Format(rule_template, fields), noise)

\* "\n".join(rule_builder(i, N, noise) for i in range(N)): the rules in
\* position order, or what the first failing build_rule raises
build_network(rule_template, N, noise) ==
    LET built == [i \in 1..N |-> build_rule(rule_template, i - 1, N, noise)]
        failed == {i \in 1..N : built[i].kind # "rule"}
    IN  IF failed = {} THEN [kind |-> "network", rules |-> built]
        ELSE built[CHOOSE i \in failed : \A j \in failed : i <= j]

template_to_network(template, N, noise) == build_network(template, N, noise)

(***************************************************************************)
(* One update of a cell under a rule instance.  The simulator reads        *)
(* lo<<=hi as an event of probability hi - lo: it holds when a uniform     *)
(* draw falls in [lo, hi).  Draws are the den equal parts of [0, 1).       *)
(***************************************************************************)
Holds(interval, u) == interval.lo.num <= u /\ u < interval.hi.num

\* the value of the rule text when cell k holds cfg[k] and the two
\* probabilistic literals are decided by the draws u1 and u2
NextState(rule, cfg, u1, u2) ==
    LET b == EvalFormula(rule.base,
                         [lit \in Literals(rule.base) |-> cfg[lit.idx]])
    IN  IF ~rule.noisy THEN b
        ELSE IF (b = 1 /\ Holds(rule.keep, u1)) \/ (b = 0 /\ Holds(rule.flip, u2))
        THEN 1 ELSE 0

(***************************************************************************)
(* roomyrobot.metrics.compute_accuracy.                                    *)
(*                                                                         *)
(* model.trajectories is a tensor [T, N, W] of cell states:                *)
(* trajectories[t][c][w] is cell c of walker w at step t (from 1).  noise  *)
(* is a fraction [num, den] and deviations an integer.                     *)
(***************************************************************************)
\* trajectories[t, :, :].sum(axis=0)[w]
RECURSIVE CellSum(_, _, _)
CellSum(frame, w, c) ==
    IF c = 0 THEN 0 ELSE frame[c][w] + CellSum(frame, w, c - 1)

\* (noise * n_cells + (noise * (1 - noise) * n_cells) ** (1 / 2) * deviations) // 1:
\* the largest e with  e <= noise * n_cells + deviations * sqrt(noise * (1 - noise) * n_cells),
\* that is  den * e - num * n_cells <= deviations * sqrt(num * (den - num) * n_cells)
Epsilon(noise, deviations, n_cells) ==
    LET p == noise.num
        q == noise.den
        Below(e) ==
            \/ q * e - p * n_cells <= 0
            \/ (q * e - p * n_cells) * (q * e - p * n_cells)
                   <= deviations * deviations * p * (q - p) * n_cells
    IN  CHOOSE e \in 0..(n_cells * (deviations + 1)) :
            Below(e) /\ ~Below(e + 1)

StartAbove(init, midpoint) == init >= midpoint

\* a start_below that counts the midpoint as below
StartBelowInclusive(init, midpoint) == init <= midpoint

StartBelow(init, midpoint) == init < midpoint

\* an end_above that leaves the edge of the tolerance band out
EndAboveStrict(final, n_cells, epsilon) == final > n_cells - epsilon

EndAbove(final, n_cells, epsilon) == final >= n_cells - epsilon

EndBelow(final, epsilon) == final <= epsilon

compute_accuracy(trajectories, noise, deviations) ==
    LET n_cells == Len(trajectories[1])
        n_samples == Len(trajectories[1][1])
        epsilon == Epsilon(noise, deviations, n_cells)
        midpoint == (n_cells \div 2) + 1
        first == trajectories[1]
        last == trajectories[Len(trajectories)]
        correct ==
            {w \in 1..n_samples :
                \/ /\ StartAbove(CellSum(first, w, n_cells), midpoint)
                   /\ EndAbove(CellSum(last, w, n_cells), n_cells, epsilon)
                \/ /\ StartBelow(CellSum(first, w, n_cells), midpoint)
                   /\ EndBelow(CellSum(last, w, n_cells), epsilon)}
    IN  IF n_samples = 0 THEN [kind |-> "nan"]
        ELSE [kind |-> "accuracy", num |-> Cardinality(correct), den |-> n_samples]

(***************************************************************************)
(* Model.frange and Model.get_noise_list.                                  *)
(*                                                                         *)
(* A noise range is [given, start, end] with start and end in tenths       *)
(* (given = FALSE is None); a noise interval is [given, num, dp], the      *)
(* decimal literal num / 10^dp.                                            *)
(***************************************************************************)
\* the n floats x, x + step, (x + step) + step, ... that `start += step`
\* runs through
RECURSIVE Accumulate(_, _, _)
Accumulate(x, step, n) ==
    IF n <= 1 THEN <<x>>
    ELSE LET left == Accumulate(x, step, n \div 2)
         IN  left \o Accumulate(FAdd(left[Len(left)], step), step, n - (n \div 2))

\* frange: the floats yielded while start <= end.  `limit` is a number of
\* additions the loop cannot reach.
frange(start, end, step, limit) ==
    LET acc == Accumulate(start, step, limit)
        over == {i \in 1..limit : ~BLe(acc[i], end)}
        stop == IF over = {} THEN limit + 1
                ELSE CHOOSE i \in over : \A j \in over : i <= j
    IN  SubSeq(acc, 1, stop - 1)

\* len(str(interval).split('.')[1]): the digits repr() prints after the point
RECURSIVE DecimalPlaces(_, _)
DecimalPlaces(num, dp) ==
    IF dp > 1 /\ num % 10 = 0 THEN DecimalPlaces(num \div 10, dp - 1) ELSE dp

Truthy(x) == x.given /\ (("num" \in DOMAIN x) => x.num # 0)

FrangeLimit(range, interval) ==
    (((range.end - range.start) * (10 ^ interval.dp)) \div (10 * interval.num)) + 3

get_noise_list(noise_range, noise_interval) ==
    IF Truthy(noise_range) /\ Truthy(noise_interval)
    THEN LET start == noise_range.start
             end == noise_range.end
         IN  IF ~(0 <= start /\ start <= 10) \/ ~(0 <= end /\ end <= 10)
             THEN [kind |-> "ValueError",
                   msg |-> "Noise range values must be between 0 and 1, inclusive."]
             ELSE IF start > end
             THEN [kind |-> "ValueError",
                   msg |-> "Start of the noise range cannot be greater than the end."]
             ELSE LET decimal_places ==
                          DecimalPlaces(noise_interval.num, noise_interval.dp)
                      floats == frange(FloatOf(start, 10), FloatOf(end, 10),
                                       FloatOf(noise_interval.num, 10 ^ noise_interval.dp),
                                       FrangeLimit(noise_range, noise_interval))
                  IN  [kind |-> "list",
                       dp |-> decimal_places,
                       values |-> [i \in 1..Len(floats) |->
                                      PyRound(floats[i], decimal_places)]]
    ELSE [kind |-> "None"]

\* the literals drawn for the noise range and the noise interval
RangeTenths == -1..11
NoRange == [given |-> FALSE, start |-> 0, end |-> 0]
Ranges ==
    {NoRange} \cup [given : {TRUE}, start : RangeTenths, end : RangeTenths]
NoInterval == [given |-> FALSE, num |-> 0, dp |-> 1]
Interval(num, dp) == [given |-> TRUE, num |-> num, dp |-> dp]
Intervals ==
    {NoInterval, Interval(0, 1), Interval(1, 1), Interval(2, 1), Interval(5, 1),
     Interval(10, 1), Interval(25, 2), Interval(50, 2), Interval(2, 3)}

(***************************************************************************)
(* Model.get_robustness.  The simulator is external: the accuracy scored   *)
(* at each noise level is any fraction of the n_walkers walkers.           *)
(***************************************************************************)
\* noise_levels = self.get_noise_list() or [self.noise_value]
NoiseLevels(listed, noise_value) ==
    IF listed.kind = "list" /\ Len(listed.values) > 0
    THEN [i \in 1..Len(listed.values) |->
             [num |-> listed.values[i], den |-> 10 ^ listed.dp]]
    ELSE <<noise_value>>

\* integrate.trapezoid(y=y, x=x) as the fraction [num, den]: x are the
\* noise levels (of one denominator), y the accuracies in n_walkers-ths
RECURSIVE TrapezoidSum(_, _, _)
TrapezoidSum(x, y, i) ==
    IF i >= Len(x) THEN 0
    ELSE (x[i + 1].num - x[i].num) * (y[i + 1] + y[i]) + TrapezoidSum(x, y, i + 1)

trapezoid(y, x, n_walkers) ==
    [num |-> TrapezoidSum(x, y, 1), den |-> 2 * x[1].den * n_walkers]

\* f"{value:.4f}": the ten-thousandths printed, ties to even
Format4(value) ==
    LET scaled == value.num * 10000
        floor == scaled \div value.den
        twice == 2 * (scaled - floor * value.den)
    IN  IF twice > value.den \/ (twice = value.den /\ floor % 2 = 1)
        THEN floor + 1 ELSE floor

\* get_robustness up to its first simulation: the noise levels, or what
\* get_noise_list or template_to_network raises
SweepLevels(self) ==
    LET listed == get_noise_list(self.noise_range, self.noise_interval)
    IN  IF listed.kind = "ValueError" THEN listed
        ELSE LET noise_levels == NoiseLevels(listed, self.noise_value)
                 template == hex_to_algebraic(self.rule, 7, TRUE)
                 network == template_to_network(template, self.lattice_size,
                                                noise_levels[1])
             IN  IF network.kind # "network" THEN network
                 ELSE [kind |-> "levels", noise_levels |-> noise_levels]

\* the rest of get_robustness, when the simulations score `accuracy`
Robustness(sweep, accuracy, n_walkers) ==
    IF sweep.kind # "levels" THEN sweep
    ELSE [kind |-> "robustness",
          noise_levels |-> sweep.noise_levels,
          accuracy |-> accuracy,
          printed |-> Format4(trapezoid(accuracy, sweep.noise_levels, n_walkers))]

get_robustness(self, accuracy) ==
    Robustness(SweepLevels(self), accuracy, self.n_walkers)

(***************************************************************************)
(* Model.get_lut and Model.get_cana_measures.  The canalization analysis   *)
(* is external: a call that reaches it is recorded with the arguments      *)
(* BooleanNode is given.                                                   *)
(***************************************************************************)
\* GKL_HEX of example.py
GKL_HEX ==
    <<5, 15, 0, 0, 5, 15, 0, 0, 5, 15, 0, 0, 5, 15, 0, 0,
      5, 15, 15, 15, 5, 15, 0, 0, 5, 15, 15, 15, 5, 15>>

get_lut(rule) == BinOfHex(rule)

\* a & b
RECURSIVE BitAnd(_, _)
BitAnd(a, b) ==
    IF a = 0 \/ b = 0 THEN 0
    ELSE (a % 2) * (b % 2) + 2 * BitAnd(a \div 2, b \div 2)

\* a length check that also turns the length 1 away
BadLutLengthAboveOne(lut_length) ==
    lut_length <= 1 \/ BitAnd(lut_length, lut_length - 1) # 0

\* lut_length == 0 or (lut_length & (lut_length - 1)) != 0
BadLutLength(lut_length) ==
    lut_length = 0 \/ BitAnd(lut_length, lut_length - 1) # 0

\* int(math.log2(lut_length)) of a power of two
Log2(lut_length) == CHOOSE k \in 0..30 : 2 ^ k = lut_length

get_cana_measures(rule) ==
    LET lut == get_lut(rule)
        lut_length == Len(lut)
    IN  IF BadLutLength(lut_length)
        THEN [kind |-> "ValueError",
              msg |-> "LUT length must be a power of 2 and greater than 0."]
        ELSE [kind |-> "measures", k |-> Log2(lut_length), outputs |-> lut]

\* the hex rules of 1..n digits
RECURSIVE HexRules(_)
HexRules(n) ==
    IF n = 0 THEN {}
    ELSE HexRules(n - 1) \cup [1..n -> HexDigits]

TranslateInputs ==
    [hex_string : HexRules(MaxHexLen), n_inputs : 1..MaxInputs,
     as_template : BOOLEAN]

HexToAlgebraic ==
    /\ call = "hex_to_algebraic"
    /\ Returns("hex_to_algebraic",
            [kind |-> "formula",
             value |-> hex_to_algebraic(args.hex_string, args.n_inputs,
                                        args.as_template)])

InitTranslate == Calls("hex_to_algebraic", TranslateInputs)

NextTranslate == HexToAlgebraic

SpecTranslate == InitTranslate /\ [][NextTranslate]_vars

\* the denominator of the noise levels drawn for build_rule
NoiseDen == 4

BuildTemplates ==
    {hex_to_algebraic(<<0>>, 7, TRUE),
     hex_to_algebraic(<<1>>, 7, TRUE),
     hex_to_algebraic(<<6>>, 7, TRUE),
     hex_to_algebraic(<<14, 8>>, 3, TRUE),
     hex_to_algebraic(<<1>>, 9, TRUE)}

BuildInputs ==
    {[rule_template |-> t, index |-> i, N |-> n, noise |-> x] :
        t \in BuildTemplates, i \in -1..MaxRing, n \in (MinRing - 2)..MaxRing,
        x \in [num : -1..(NoiseDen + 1), den : {NoiseDen}]}

BuildRule ==
    /\ call = "build_rule"
    /\ Returns("build_rule",
            build_rule(args.rule_template, args.index, args.N, args.noise))

InitBuild ==
    /\ Calls("build_rule", BuildInputs)
    /\ args.index <= args.N

NextBuild == BuildRule

SpecBuild == InitBuild /\ [][NextBuild]_vars

\* trajectories whose walkers start with `init[w]` cells set and end with
\* `final[w]` cells set: the first cells of the ring are the set ones
Trajectory(n_cells, init, final) ==
    LET Frame(sums) ==
            [c \in 1..n_cells |->
                [w \in 1..Len(sums) |-> IF c <= sums[w] THEN 1 ELSE 0]]
    IN  <<Frame(init), Frame(final)>>

ComputeAccuracy ==
    /\ call = "compute_accuracy"
    /\ Returns("compute_accuracy",
            compute_accuracy(args.trajectories, args.noise, args.deviations))

InitScore ==
    \E n \in 1..MaxCells, w \in 0..MaxWalkers :
        \E init \in [1..w -> 0..n], final \in [1..w -> 0..n] :
            /\ call = "compute_accuracy"
            /\ args \in [trajectories : {Trajectory(n, init, final)},
                         noise : [num : 0..NoiseDen, den : {NoiseDen}],
                         deviations : 0..MaxDev]
            /\ ret = Pending

NextScore == ComputeAccuracy

SpecScore == InitScore /\ [][NextScore]_vars

CanaInputs == [rule : HexRules(MaxHexLen) \cup {GKL_HEX}]

GetLut ==
    /\ call = "get_lut"
    /\ Returns("get_lut", [kind |-> "lut", value |-> get_lut(args.rule)])

GetCanaMeasures ==
    /\ call = "get_cana_measures"
    /\ Returns("get_cana_measures", get_cana_measures(args.rule))

InitCana ==
    \/ Calls("get_lut", CanaInputs)
    \/ Calls("get_cana_measures", CanaInputs)

NextCana == GetLut \/ GetCanaMeasures

SpecCana == InitCana /\ [][NextCana]_vars

\* the fields of a Model: noise_value in tenths, accuracies in n_walkers-ths
SweepModels ==
    [rule : {<<1>>}, noise_range : Ranges, noise_interval : Intervals,
     noise_value : {Zero(10)}, lattice_size : {MinRing}, n_walkers : {2}]

RobustnessModels ==
    [rule : {<<1>>},
     noise_range : {NoRange} \cup [given : {TRUE}, start : {0, 5, 10},
                                   end : {0, 5, 10, 11}],
     noise_interval : {NoInterval, Interval(5, 1), Interval(10, 1)},
     noise_value : [num : {-1, 0, 5, 10, 11}, den : {10}],
     lattice_size : {MinRing - 1, MinRing}, n_walkers : {2}]

\* the models whose noise list is short enough to draw the accuracies for
ShortSweep(self) ==
    (Truthy(self.noise_range) /\ Truthy(self.noise_interval)
        /\ self.noise_range.start <= self.noise_range.end)
    => FrangeLimit(self.noise_range, self.noise_interval) <= MaxLevels + 3

GetNoiseList ==
    /\ call = "get_noise_list"
    /\ Returns("get_noise_list",
            get_noise_list(args.noise_range, args.noise_interval))

GetRobustness ==
    /\ call = "get_robustness"
    /\ LET sweep == SweepLevels(args)
           n == IF sweep.kind = "levels" THEN Len(sweep.noise_levels) ELSE 1
       IN  /\ n <= MaxLevels
           /\ \E accuracy \in [1..n -> 0..args.n_walkers] :
                 Returns("get_robustness",
                         Robustness(sweep, accuracy, args.n_walkers))

InitSweep ==
    \/ Calls("get_noise_list", SweepModels)
    \/ Calls("get_robustness", RobustnessModels) /\ ShortSweep(args)

NextSweep == GetNoiseList \/ GetRobustness

SpecSweep == InitSweep /\ [][NextSweep]_vars

(***************************************************************************)
(* Properties of the rule translation, under SpecTranslate.                *)
(***************************************************************************)
\* C1: for a hex rule whose integer value is below 2^(2^n_inputs), the
\* canonical formula of hex_to_algebraic (simplify=False, as_template=False)
\* takes, on every input configuration i in 0..2^n_inputs-1 (x_0 the most
\* significant bit of i), the value of bit i of the rule's binary expansion
\* zero-padded on the left to 2^n_inputs bits; the all-zero rule yields the
\* constant formula "0".  The padded bit i is read off the hex digits
\* directly: it is bit 2^n_inputs-1-i of the rule's integer, counted from
\* the least significant.
C1_CanonicalFormulaReproducesLut ==
    (call = "hex_to_algebraic" /\ ret # Pending /\ ~args.as_template) =>
        LET h == args.hex_string
            n == args.n_inputs
            IntBit(j) ==
                IF j \div 4 < Len(h)
                THEN (h[Len(h) - (j \div 4)] \div (2 ^ (j % 4))) % 2
                ELSE 0
            Fits == \A j \in (2 ^ n)..((4 * Len(h)) - 1) : IntBit(j) = 0
            AllZero == \A j \in 0..((4 * Len(h)) - 1) : IntBit(j) = 0
        IN  /\ Fits =>
                \A i \in 0..((2 ^ n) - 1) :
                    EvalOnConfig(ret.value, i, n) = IntBit(((2 ^ n) - 1) - i)
            /\ AllZero => ret.value = [zero |-> TRUE, terms |-> <<>>]

\* a 3-input rule with several implicants has been translated
C1_Witness ==
    /\ call = "hex_to_algebraic"
    /\ ret # Pending
    /\ ~args.as_template
    /\ args.n_inputs = 3
    /\ args.hex_string = <<14, 8>>
    /\ Len(ret.value.terms) = 4
    /\ EvalOnConfig(ret.value, 0, 3) = 1
    /\ EvalOnConfig(ret.value, 7, 3) = 0

(***************************************************************************)
(* Properties of build_rule, under SpecBuild.                              *)
(***************************************************************************)
\* C7, as stated: for every template, position, N and noise, build_rule
\* returns a rule instance if and only if 0 <= noise <= 1, 0 <= position < N
\* and N >= 7; in every other case it raises a validation error.
C7_AsStated ==
    (call = "build_rule" /\ ret # Pending) =>
        LET valid == /\ 0 <= args.noise.num
                     /\ args.noise.num <= args.noise.den
                     /\ 0 <= args.index
                     /\ args.index < args.N
                     /\ args.N >= 7
        IN  /\ ret.kind = "rule" <=> valid
            /\ ~valid => ret.kind = "ValueError"

\* C7, amended: for every template whose placeholders are among c, l1..l3
\* and r1..r3, build_rule returns a rule instance if and only if
\* 0 <= noise <= 1, 0 <= position < N and N >= 7; in every other case (in
\* particular N = 6, and position = N) it raises a validation error.
C7_RuleIffValid ==
    (/\ call = "build_rule"
     /\ ret # Pending
     /\ \A lit \in Literals(args.rule_template) :
            lit.kind = "slot" => (-3 <= lit.idx /\ lit.idx <= 3)) =>
        LET valid == /\ 0 <= args.noise.num
                     /\ args.noise.num <= args.noise.den
                     /\ 0 <= args.index
                     /\ args.index < args.N
                     /\ args.N >= 7
        IN  /\ ret.kind = "rule" <=> valid
            /\ ~valid => ret.kind = "ValueError"

\* build_rule has turned away position = N on a ring of 7 with a noise
\* inside [0, 1]
C7_Witness ==
    /\ call = "build_rule"
    /\ ret.kind = "ValueError"
    /\ args.N = 7
    /\ args.index = args.N
    /\ args.noise.num = 1
    /\ args.rule_template = hex_to_algebraic(<<1>>, 7, TRUE)

C10_AsStated ==
    (call = "build_rule" /\ ret.kind = "rule") =>
        /\ \E N \in 7..12 :
               \E index \in 0..(N - 1) :
                   \E a, b \in -3..3 :
                       /\ a # b
                       /\ NeighbourIndices(index, N)[a] = NeighbourIndices(index, N)[b]
        /\ args.N >= 13 =>
               \A a, b \in -3..3 :
                   a # b => NeighbourIndices(args.index, args.N)[a]
                                # NeighbourIndices(args.index, args.N)[b]

\* C10, amended: for every ring size build_rule accepts (N >= 7, below 13
\* or not) and every position in [0, N) the seven neighbourhood indices
\* position, (position +- 1) mod N, (position +- 2) mod N and
\* (position +- 3) mod N are pairwise different, so the rule built reads as
\* many cells as its template has placeholders.
C10_NoIndexAliasing ==
    (call = "build_rule" /\ ret.kind = "rule") =>
        /\ \A a, b \in -3..3 :
               a # b => NeighbourIndices(args.index, args.N)[a]
                            # NeighbourIndices(args.index, args.N)[b]
        /\ Cardinality({lit.idx : lit \in Literals(ret.base)})
               = Cardinality(Slots(args.rule_template))

\* a rule reading all seven cells has been built on a ring smaller than 13,
\* at a position where the neighbourhood wraps around the ring
C10_Witness ==
    /\ call = "build_rule"
    /\ ret.kind = "rule"
    /\ args.N = 7
    /\ args.index = 0
    /\ Cardinality(Slots(args.rule_template)) = 7
    /\ {lit.idx : lit \in Literals(ret.base)} = 0..6

(***************************************************************************)
(* Properties of compute_accuracy, under SpecScore.  The cell-sums of a    *)
(* walker are counted off the tensor: the cells of its first and of its    *)
(* last frame that hold 1.                                                 *)
(***************************************************************************)
\* C2, as stated: if every walker's initial cell-sum and final cell-sum both
\* reach the majority threshold (>= midpoint = N // 2 + 1), compute_accuracy
\* returns 1.0.  Taken with at least one walker.
C2_AsStated ==
    (call = "compute_accuracy" /\ ret # Pending) =>
        LET first == args.trajectories[1]
            last == args.trajectories[Len(args.trajectories)]
            N == Len(first)
            W == Len(first[1])
            midpoint == (N \div 2) + 1
            Sum(frame, w) == Cardinality({c \in 1..N : frame[c][w] = 1})
        IN  (/\ W >= 1
             /\ \A w \in 1..W : Sum(first, w) >= midpoint /\ Sum(last, w) >= midpoint)
                => (ret.kind = "accuracy" /\ ret.num = ret.den)

\* C2, amended: with at least one walker, if every walker's initial
\* cell-sum reaches the majority threshold (>= midpoint = N // 2 + 1) and
\* its final cell-sum reaches the tolerance band of the all-ones state
\* (>= N - epsilon, epsilon the floor of
\* noise * N + deviations * sqrt(noise * (1 - noise) * N)), compute_accuracy
\* returns 1.0.
C2_AllAboveIsFullAccuracy ==
    (call = "compute_accuracy" /\ ret # Pending) =>
        LET first == args.trajectories[1]
            last == args.trajectories[Len(args.trajectories)]
            N == Len(first)
            W == Len(first[1])
            midpoint == (N \div 2) + 1
            epsilon == Epsilon(args.noise, args.deviations, N)
            Sum(frame, w) == Cardinality({c \in 1..N : frame[c][w] = 1})
        IN  (/\ W >= 1
             /\ \A w \in 1..W : Sum(first, w) >= midpoint /\ Sum(last, w) >= N - epsilon)
                => (ret.kind = "accuracy" /\ ret.num = ret.den)

\* two walkers that start above the midpoint and end exactly on the edge of
\* the tolerance band, short of all ones, have been scored
C2_Witness ==
    /\ call = "compute_accuracy"
    /\ ret.kind = "accuracy"
    /\ ret.num = ret.den
    /\ LET first == args.trajectories[1]
           last == args.trajectories[Len(args.trajectories)]
           N == Len(first)
           W == Len(first[1])
           epsilon == Epsilon(args.noise, args.deviations, N)
           Sum(frame, w) == Cardinality({c \in 1..N : frame[c][w] = 1})
       IN  /\ W = 2
           /\ epsilon = 1
           /\ \A w \in 1..W :
                  Sum(first, w) >= (N \div 2) + 1 /\ Sum(last, w) = N - epsilon

\* C3, as stated: if every walker flips sides (initial cell-sum >= midpoint
\* and final cell-sum < midpoint, or initial cell-sum < midpoint and final
\* cell-sum >= midpoint), compute_accuracy returns 0.0.  Taken with at least
\* one walker.
C3_AsStated ==
    (call = "compute_accuracy" /\ ret # Pending) =>
        LET first == args.trajectories[1]
            last == args.trajectories[Len(args.trajectories)]
            N == Len(first)
            W == Len(first[1])
            midpoint == (N \div 2) + 1
            Sum(frame, w) == Cardinality({c \in 1..N : frame[c][w] = 1})
        IN  (/\ W >= 1
             /\ \A w \in 1..W :
                    \/ Sum(first, w) >= midpoint /\ Sum(last, w) < midpoint
                    \/ Sum(first, w) < midpoint /\ Sum(last, w) >= midpoint)
                => (ret.kind = "accuracy" /\ ret.num = 0)

\* C3, amended: with at least one walker and a tolerance epsilon of at most
\* N - midpoint (the two tolerance bands stay on their own side of the
\* midpoint), if every walker flips sides compute_accuracy returns 0.0.
C3_AllFlippedIsZeroAccuracy ==
    (call = "compute_accuracy" /\ ret # Pending) =>
        LET first == args.trajectories[1]
            last == args.trajectories[Len(args.trajectories)]
            N == Len(first)
            W == Len(first[1])
            midpoint == (N \div 2) + 1
            epsilon == Epsilon(args.noise, args.deviations, N)
            Sum(frame, w) == Cardinality({c \in 1..N : frame[c][w] = 1})
        IN  (/\ W >= 1
             /\ epsilon <= N - midpoint
             /\ \A w \in 1..W :
                    \/ Sum(first, w) >= midpoint /\ Sum(last, w) < midpoint
                    \/ Sum(first, w) < midpoint /\ Sum(last, w) >= midpoint)
                => (ret.kind = "accuracy" /\ ret.num = 0)

\* two walkers have been scored 0.0, one that fell from the midpoint to no
\* cell set and one that rose from below the midpoint to all cells set
C3_Witness ==
    /\ call = "compute_accuracy"
    /\ ret.kind = "accuracy"
    /\ ret.num = 0
    /\ LET first == args.trajectories[1]
           last == args.trajectories[Len(args.trajectories)]
           N == Len(first)
           W == Len(first[1])
           midpoint == (N \div 2) + 1
           Sum(frame, w) == Cardinality({c \in 1..N : frame[c][w] = 1})
       IN  /\ W = 2
           /\ Epsilon(args.noise, args.deviations, N) <= N - midpoint
           /\ Sum(first, 1) = midpoint /\ Sum(last, 1) = 0
           /\ Sum(first, 2) = midpoint - 1 /\ Sum(last, 2) = N

(***************************************************************************)
(* Properties of the canalization path, under SpecCana.                    *)
(***************************************************************************)
\* C5: on the GKL rule 0x5f005f005f005f005fff5f005fff5f, a 7-input rule
\* whose integer has leading zero bits relative to 128 bits, get_lut derives
\* a LUT of length 128 and get_cana_measures passes the power-of-two
\* validation with n_inputs = 7 and hands the LUT to the analyzer instead of
\* raising a validation error.
C5_GklRuleIsMeasured ==
    (ret # Pending /\ args.rule = GKL_HEX) =>
        /\ call = "get_lut" => Len(ret.value) = 128
        /\ call = "get_cana_measures" =>
               (ret.kind = "measures" /\ ret.k = 7 /\ Len(ret.outputs) = 128)

\* C6, as stated: the canalization path raises a validation error for the
\* rule 0x1, which the specification names as a rule without a power-of-two
\* bit-length.
C6_AsStated ==
    (call = "get_cana_measures" /\ ret # Pending /\ args.rule = <<1>>) =>
        ret.kind = "ValueError"

\* C6, amended: the canalization path raises a validation error, before the
\* analyzer is called, exactly for the rules whose binary expansion without
\* leading zeros (one digit "0" for the zero rule) has a length that is no
\* power of two, such as 0x5 (three bits); the rule 0x1 has the length
\* 1 = 2^0 and is handed to the analyzer with n_inputs = 0.
C6_RaisesIffLengthNotPowerOfTwo ==
    (call = "get_cana_measures" /\ ret # Pending) =>
        LET h == args.rule
            lead == {i \in 1..Len(h) : h[i] # 0}
            first == CHOOSE i \in lead : \A j \in lead : i <= j
            top == IF h[first] >= 8 THEN 4
                   ELSE IF h[first] >= 4 THEN 3
                   ELSE IF h[first] >= 2 THEN 2 ELSE 1
            length == IF lead = {} THEN 1 ELSE 4 * (Len(h) - first) + top
            power == \E k \in 0..7 : length = 2 ^ k
        IN  /\ ret.kind = "ValueError" <=> ~power
            /\ power => (/\ ret.kind = "measures"
                         /\ Len(ret.outputs) = length
                         /\ 2 ^ ret.k = length)
            /\ h = <<1>> => ret = [kind |-> "measures", k |-> 0, outputs |-> <<1>>]

\* the rule 0x5, of three bits, has been turned away
C6_Witness ==
    /\ call = "get_cana_measures"
    /\ args.rule = <<5>>
    /\ ret.kind = "ValueError"
    /\ Len(get_lut(args.rule)) = 3

(***************************************************************************)
(* Properties of the noise sweep and of get_robustness, under SpecSweep.   *)
(***************************************************************************)
\* C4: when the caller supplies a single noise value and no noise range or
\* interval, get_robustness reports exactly the accuracy scored at that one
\* noise value, to 4 decimals, for every accuracy in [0, 1].  `printed` is
\* in ten-thousandths and the accuracy in n_walkers-ths.
C4_SingleNoiseReportsAccuracy ==
    (/\ call = "get_robustness"
     /\ ret.kind = "robustness"
     /\ ~args.noise_range.given
     /\ ~args.noise_interval.given) =>
        /\ Len(ret.accuracy) = 1
        /\ ret.printed * args.n_walkers = 10000 * ret.accuracy[1]

\* C8: for a valid range (0 <= start <= end <= 1) and a positive interval,
\* get_noise_list returns a strictly increasing sequence whose first value is
\* start, whose k-th value is start + k * interval rounded to the interval's
\* decimal digits, and which includes end whenever end - start is a whole
\* multiple of interval; for the range (0.0, 1.0) and the interval 0.002 it
\* is the 501 values 0.000, 0.002, ..., 1.000.  Values are counted in units
\* of 10^-dp, dp the decimal digits of the interval.
C8_NoiseListIsTheGrid ==
    (/\ call = "get_noise_list"
     /\ ret # Pending
     /\ args.noise_range.given
     /\ 0 <= args.noise_range.start
     /\ args.noise_range.start <= args.noise_range.end
     /\ args.noise_range.end <= 10
     /\ args.noise_interval.given
     /\ args.noise_interval.num > 0) =>
        LET dp == DecimalPlaces(args.noise_interval.num, args.noise_interval.dp)
            unit == 10 ^ (dp - 1)
            start == args.noise_range.start * unit
            end == args.noise_range.end * unit
            step == args.noise_interval.num \div (10 ^ (args.noise_interval.dp - dp))
        IN  /\ ret.kind = "list"
            /\ Len(ret.values) >= 1
            /\ \A k \in 1..Len(ret.values) : ret.values[k] = start + (k - 1) * step
            /\ (end - start) % step = 0 => ret.values[Len(ret.values)] = end
            /\ (start = 0 /\ end = 1000 /\ step = 2) => Len(ret.values) = 501

====
